---- MODULE Spec2Model ----
(***************************************************************************)
(* ParallelGroupBuilder (src/common/group_data.h): grouping of (key,value) *)
(* pairs into data / rptr by a two pass scan, driven by several threads.   *)
(*                                                                         *)
(* C++ vectors are modelled as sequences; the element with C++ index i is  *)
(* the element i + 1 of the sequence.  Thread ids and keys keep their C++  *)
(* numbering (from 0).                                                     *)
(***************************************************************************)
EXTENDS Integers, Sequences, FiniteSets, TLC

\* ------------------------------------------------------------------ bounds
\* largest number of threads handed to InitBudget in a fresh build
MaxThreads == 2
\* largest number of threads handed to InitBudget when build cycles are chained
AppendThreads == 1
\* keys range over 0..MaxKey
MaxKey == 1
\* largest number of values budgeted over all build cycles together
MaxData == 3
\* largest number of build cycles chained on the same backing arrays
MaxCycles == 2
\* the values pushed; the builder never inspects them
Values == {"a", "b"}
\* ValueType(): what data_.resize puts into a new cell
NoValue == "_"

Keys == 0..MaxKey
\* the nkeys hint may be smaller or larger than the keys that are used
Hints == 0..(MaxKey + 1)

VARIABLES
  rptr_,         \* std::vector<SizeType> &rptr_
  data_,         \* std::vector<ValueType> &data_
  thread_rptr_,  \* std::vector<std::vector<SizeType> > &thread_rptr_
  pc,            \* the caller's phase: "idle", "budget" or "fill"
  cycle,         \* number of InitBudget calls so far
  budget,        \* history: budget[t+1][k+1] = sum of nelem of AddBudget(k,t,.)
  width,         \* history: width[t+1] = max(nkeys, 1 + largest key t budgeted)
  pushed,        \* history: pushed[t+1][k+1] = the Push(k, ., t) calls, in order
  entry,         \* history: rptr_ and data_ when the build cycle started
  total          \* history: total[k+1] = values pushed for k over all cycles

vars == <<rptr_, data_, thread_rptr_, pc, cycle, budget, width, pushed,
          entry, total>>

\* ------------------------------------------------------- vector primitives
\* v.back()
Back(v) == v[Len(v)]

\* v.resize(n, fill): keeps the first n elements, pads with fill
Resize(v, n, fill) == [j \in 1..n |-> IF j <= Len(v) THEN v[j] ELSE fill]

\* std::fill(v.begin(), v.end(), x)
Fill(v, x) == [j \in 1..Len(v) |-> x]

RECURSIVE SumSeq(_)
SumSeq(s) == IF s = <<>> THEN 0 ELSE Head(s) + SumSeq(Tail(s))

\* ------------------------------------------------------------- InitBudget
\* InitBudget that resizes the tables without clearing them
InitBudgetTables_NoFill(trp, nkeys, nthread) ==
  LET resized == Resize(trp, nthread, <<>>)
  IN  [t \in 1..nthread |-> Resize(resized[t], nkeys, 0)]

\* thread_rptr_.resize(nthread); every table resized to nkeys and zeroed
InitBudgetTables(trp, nkeys, nthread) ==
  LET resized == Resize(trp, nthread, <<>>)
  IN  [t \in 1..nthread |-> Fill(Resize(resized[t], nkeys, 0), 0)]

\* -------------------------------------------------------------- AddBudget
\* AddBudget that assigns nelem instead of adding it
AddBudgetTable_Overwrite(trptr, key, nelem) ==
  LET grown == IF Len(trptr) < key + 1 THEN Resize(trptr, key + 1, 0) ELSE trptr
  IN  [grown EXCEPT ![key + 1] = nelem]

\* AddBudget that re-creates the table when it grows it
AddBudgetTable_GrowReset(trptr, key, nelem) ==
  LET grown == IF Len(trptr) < key + 1 THEN [j \in 1..(key + 1) |-> 0] ELSE trptr
  IN  [grown EXCEPT ![key + 1] = @ + nelem]

\* AddBudget that fills the cells it adds with nelem
AddBudgetTable_FillNelem(trptr, key, nelem) ==
  LET grown == IF Len(trptr) < key + 1 THEN Resize(trptr, key + 1, nelem) ELSE trptr
  IN  [grown EXCEPT ![key + 1] = @ + nelem]

\* trptr of AddBudget after the call
AddBudgetTable(trptr, key, nelem) ==
  LET grown == IF Len(trptr) < key + 1 THEN Resize(trptr, key + 1, 0) ELSE trptr
  IN  [grown EXCEPT ![key + 1] = @ + nelem]

\* AddBudget that always takes the table of thread 0
AddBudgetResult_FirstThread(trp, key, threadid, nelem) ==
  [trp EXCEPT ![1] = AddBudgetTable(@, key, nelem)]

\* thread_rptr_ after AddBudget: trptr is a reference to thread_rptr_[threadid]
AddBudgetResult(trp, key, threadid, nelem) ==
  [trp EXCEPT ![threadid + 1] = AddBudgetTable(@, key, nelem)]

\* ------------------------------------------------------------ InitStorage
\* first loop of InitStorage that pads rptr with 0 instead of rptr_fill_value
RECURSIVE SizeLoop_ZeroFill(_, _, _, _)
SizeLoop_ZeroFill(rptr, trp, fillv, tid) ==
  IF tid >= Len(trp) THEN rptr
  ELSE SizeLoop_ZeroFill(IF Len(rptr) <= Len(trp[tid + 1])
                           THEN Resize(rptr, Len(trp[tid + 1]) + 1, 0)
                           ELSE rptr,
                         trp, fillv, tid + 1)

\* first loop that resizes rptr to every table in turn, wider or not
RECURSIVE SizeLoop_AlwaysResize(_, _, _, _)
SizeLoop_AlwaysResize(rptr, trp, fillv, tid) ==
  IF tid >= Len(trp) THEN rptr
  ELSE SizeLoop_AlwaysResize(Resize(rptr, Len(trp[tid + 1]) + 1, fillv),
                             trp, fillv, tid + 1)

\* first loop of InitStorage: set rptr to correct size
RECURSIVE SizeLoop(_, _, _, _)
SizeLoop(rptr, trp, fillv, tid) ==
  IF tid >= Len(trp) THEN rptr
  ELSE SizeLoop(IF Len(rptr) <= Len(trp[tid + 1])
                  THEN Resize(rptr, Len(trp[tid + 1]) + 1, fillv)
                  ELSE rptr,
                trp, fillv, tid + 1)

\* inner loop that gives every thread the start of the key's segment
RECURSIVE ThreadLoop_SegmentStart(_, _, _)
ThreadLoop_SegmentStart(st, i, tid) ==
  IF tid >= Len(st.trp) THEN st
  ELSE LET trptr == st.trp[tid + 1]
       IN  IF i < Len(trptr)
             THEN ThreadLoop_SegmentStart(
                    [rptr  |-> st.rptr,
                     trp   |-> [st.trp EXCEPT ![tid + 1][i + 1] = st.rptr[i + 1]],
                     count |-> st.count + trptr[i + 1]],
                    i, tid + 1)
             ELSE ThreadLoop_SegmentStart(st, i, tid + 1)

\* inner loop that stores the cursor after advancing count
RECURSIVE ThreadLoop_CursorAfter(_, _, _)
ThreadLoop_CursorAfter(st, i, tid) ==
  IF tid >= Len(st.trp) THEN st
  ELSE LET trptr == st.trp[tid + 1]
       IN  IF i < Len(trptr)
             THEN ThreadLoop_CursorAfter(
                    [rptr  |-> st.rptr,
                     trp   |-> [st.trp EXCEPT ![tid + 1][i + 1] =
                                                 st.count + trptr[i + 1] + Back(st.rptr)],
                     count |-> st.count + trptr[i + 1]],
                    i, tid + 1)
             ELSE ThreadLoop_CursorAfter(st, i, tid + 1)

\* inner loop that visits the threads from the last to the first
RECURSIVE ThreadLoop_Reversed(_, _, _)
ThreadLoop_Reversed(st, i, tid) ==
  IF tid >= Len(st.trp) THEN st
  ELSE LET rid   == Len(st.trp) - 1 - tid
           trptr == st.trp[rid + 1]
       IN  IF i < Len(trptr)
             THEN ThreadLoop_Reversed(
                    [rptr  |-> st.rptr,
                     trp   |-> [st.trp EXCEPT ![rid + 1][i + 1] =
                                                 st.count + Back(st.rptr)],
                     count |-> st.count + trptr[i + 1]],
                    i, tid + 1)
             ELSE ThreadLoop_Reversed(st, i, tid + 1)

\* inner loop that leaves rptr_.back() out of the cursor
RECURSIVE ThreadLoop_NoBase(_, _, _)
ThreadLoop_NoBase(st, i, tid) ==
  IF tid >= Len(st.trp) THEN st
  ELSE LET trptr == st.trp[tid + 1]
       IN  IF i < Len(trptr)
             THEN ThreadLoop_NoBase(
                    [rptr  |-> st.rptr,
                     trp   |-> [st.trp EXCEPT ![tid + 1][i + 1] = st.count],
                     count |-> st.count + trptr[i + 1]],
                    i, tid + 1)
             ELSE ThreadLoop_NoBase(st, i, tid + 1)

\* inner loop of InitStorage for key i; st = [rptr, trp, count]
RECURSIVE ThreadLoop(_, _, _)
ThreadLoop(st, i, tid) ==
  IF tid >= Len(st.trp) THEN st
  ELSE LET trptr == st.trp[tid + 1]
       IN  IF i < Len(trptr)
             THEN ThreadLoop([rptr  |-> st.rptr,
                              trp   |-> [st.trp EXCEPT ![tid + 1][i + 1] =
                                                          st.count + Back(st.rptr)],
                              count |-> st.count + trptr[i + 1]],
                             i, tid + 1)
             ELSE ThreadLoop(st, i, tid + 1)

\* outer loop that starts count at 0 for every key
RECURSIVE KeyLoop_ResetCount(_, _)
KeyLoop_ResetCount(st, i) ==
  IF ~(i + 1 < Len(st.rptr)) THEN st
  ELSE LET in == ThreadLoop([st EXCEPT !.count = 0], i, 0)
       IN  KeyLoop_ResetCount([rptr  |-> [in.rptr EXCEPT ![i + 2] = @ + in.count],
                               trp   |-> in.trp,
                               count |-> in.count],
                              i + 1)

\* outer loop that adds count to rptr_[i] instead of rptr_[i + 1]
RECURSIVE KeyLoop_OffByOne(_, _)
KeyLoop_OffByOne(st, i) ==
  IF ~(i + 1 < Len(st.rptr)) THEN st
  ELSE LET in == ThreadLoop(st, i, 0)
       IN  KeyLoop_OffByOne([rptr  |-> [in.rptr EXCEPT ![i + 1] = @ + in.count],
                             trp   |-> in.trp,
                             count |-> in.count],
                            i + 1)

\* outer loop that adds the count of key i to rptr_[i + 1] before it gives the
\* cursors of key i
RECURSIVE KeyLoop_UpdateFirst(_, _)
KeyLoop_UpdateFirst(st, i) ==
  IF ~(i + 1 < Len(st.rptr)) THEN st
  ELSE LET after == ThreadLoop(st, i, 0)
           moved == [st.rptr EXCEPT ![i + 2] = @ + after.count]
           in    == ThreadLoop([rptr |-> moved, trp |-> st.trp, count |-> st.count], i, 0)
       IN  KeyLoop_UpdateFirst([rptr  |-> moved,
                                trp   |-> in.trp,
                                count |-> in.count],
                               i + 1)

\* outer loop that stores the count in rptr_[i + 1] instead of adding it
RECURSIVE KeyLoop_Assign(_, _)
KeyLoop_Assign(st, i) ==
  IF ~(i + 1 < Len(st.rptr)) THEN st
  ELSE LET in == ThreadLoop(st, i, 0)
       IN  KeyLoop_Assign([rptr  |-> [in.rptr EXCEPT ![i + 2] = in.count],
                           trp   |-> in.trp,
                           count |-> in.count],
                          i + 1)

\* outer loop of InitStorage
RECURSIVE KeyLoop(_, _)
KeyLoop(st, i) ==
  IF ~(i + 1 < Len(st.rptr)) THEN st
  ELSE LET in == ThreadLoop(st, i, 0)
       IN  KeyLoop([rptr  |-> [in.rptr EXCEPT ![i + 2] = @ + in.count],
                    trp   |-> in.trp,
                    count |-> in.count],
                   i + 1)

\* InitStorage that sizes data_ by the values budgeted in this build alone
InitStorageResult_ResizeCount(rptr, data, trp) ==
  LET rptr_fill_value == IF rptr = <<>> THEN 0 ELSE Back(rptr)
      sized == SizeLoop(rptr, trp, rptr_fill_value, 0)
      st    == KeyLoop([rptr |-> sized, trp |-> trp, count |-> 0], 0)
  IN  [rptr |-> st.rptr, trp |-> st.trp,
       data |-> Resize(data, st.count, NoValue)]

\* rptr_, thread_rptr_ and data_ after InitStorage
InitStorageResult(rptr, data, trp) ==
  LET rptr_fill_value == IF rptr = <<>> THEN 0 ELSE Back(rptr)
      sized == SizeLoop(rptr, trp, rptr_fill_value, 0)
      st    == KeyLoop([rptr |-> sized, trp |-> trp, count |-> 0], 0)
  IN  [rptr |-> st.rptr, trp |-> st.trp,
       data |-> Resize(data, Back(st.rptr), NoValue)]

\* ------------------------------------------------------------------- Push
\* Push that does not advance the cursor
PushResult_NoAdvance(data, trp, key, value, threadid) ==
  LET rp == trp[threadid + 1][key + 1]
  IN  [data |-> [data EXCEPT ![rp + 1] = value],
       trp  |-> trp,
       at   |-> rp]

\* Push that advances the cursor before it writes
PushResult_PreIncrement(data, trp, key, value, threadid) ==
  LET rp == trp[threadid + 1][key + 1]
  IN  [data |-> [data EXCEPT ![rp + 2] = value],
       trp  |-> [trp EXCEPT ![threadid + 1][key + 1] = rp + 1],
       at   |-> rp + 1]

\* data_[rp++] = value
PushResult(data, trp, key, value, threadid) ==
  LET rp == trp[threadid + 1][key + 1]
  IN  [data |-> [data EXCEPT ![rp + 1] = value],
       trp  |-> [trp EXCEPT ![threadid + 1][key + 1] = rp + 1],
       at   |-> rp]

\* ------------------------------------------------------------ the caller
NThread == Len(thread_rptr_)
Threads == 0..(NThread - 1)

\* number of Push calls thread t has made for key k in this cycle
NPushed(t, k) == Len(pushed[t + 1][k + 1])

TotalBudget == SumSeq([t \in 1..Len(budget) |-> SumSeq(budget[t])])

\* every thread has pushed what it budgeted
AllPushed == \A t \in Threads : \A k \in Keys : NPushed(t, k) = budget[t + 1][k + 1]

Init ==
  /\ rptr_ = <<>>
  /\ data_ = <<>>
  /\ thread_rptr_ = <<>>
  /\ pc = "idle"
  /\ cycle = 0
  /\ budget = <<>>
  /\ width = <<>>
  /\ pushed = <<>>
  /\ entry = [rptr |-> <<>>, data |-> <<>>]
  /\ total = [k \in 1..(MaxKey + 1) |-> [v \in Values |-> 0]]

\* phase 1, at the start of a build cycle, with at most maxthread threads
InitBudgetCall(maxthread) ==
  /\ pc = "idle" \/ (pc = "fill" /\ AllPushed)
  /\ \E nkeys \in Hints, nthread \in 1..maxthread :
       /\ thread_rptr_' = InitBudgetTables(thread_rptr_, nkeys, nthread)
       /\ budget' = [t \in 1..nthread |-> [k \in 1..(MaxKey + 1) |-> 0]]
       /\ width' = [t \in 1..nthread |-> nkeys]
       /\ pushed' = [t \in 1..nthread |-> [k \in 1..(MaxKey + 1) |-> <<>>]]
  /\ pc' = "budget"
  /\ cycle' = cycle + 1
  /\ entry' = [rptr |-> rptr_, data |-> data_]
  /\ UNCHANGED <<rptr_, data_, total>>

\* one build on empty rptr_ and data_
InitBudget ==
  /\ cycle = 0
  /\ InitBudgetCall(MaxThreads)

\* a build, or a further build on the rptr_ and data_ the last one left
InitBudgetAppend ==
  /\ cycle < MaxCycles
  /\ InitBudgetCall(AppendThreads)

\* phase 2, any thread, any key, any order
AddBudget ==
  /\ pc = "budget"
  /\ \E threadid \in Threads, key \in Keys, nelem \in 0..MaxData :
       /\ Len(data_) + TotalBudget + nelem <= MaxData
       /\ thread_rptr_' = AddBudgetResult(thread_rptr_, key, threadid, nelem)
       /\ budget' = [budget EXCEPT ![threadid + 1][key + 1] = @ + nelem]
       /\ width' = [width EXCEPT ![threadid + 1] = IF 1 + key > @ THEN 1 + key ELSE @]
  /\ UNCHANGED <<rptr_, data_, pc, cycle, pushed, entry, total>>

\* phase 3, single threaded, after every AddBudget and before every Push
InitStorage ==
  /\ pc = "budget"
  /\ LET r == InitStorageResult(rptr_, data_, thread_rptr_)
     IN  /\ rptr_' = r.rptr
         /\ thread_rptr_' = r.trp
         /\ data_' = r.data
  /\ pc' = "fill"
  /\ UNCHANGED <<cycle, budget, width, pushed, entry, total>>

\* phase 4, any thread with budget left for the key pushes one of values
PushCall(values) ==
  /\ pc = "fill"
  /\ \E threadid \in Threads, key \in Keys, value \in values :
       /\ NPushed(threadid, key) < budget[threadid + 1][key + 1]
       /\ LET r == PushResult(data_, thread_rptr_, key, value, threadid)
          IN  /\ data_' = r.data
              /\ thread_rptr_' = r.trp
              /\ pushed' = [pushed EXCEPT ![threadid + 1][key + 1] =
                              Append(@, [value |-> value, at |-> r.at])]
       /\ total' = [total EXCEPT ![key + 1][value] = @ + 1]
  /\ UNCHANGED <<rptr_, pc, cycle, budget, width, entry>>

\* phase 4 of a build of any values
Push == PushCall(Values)

\* the budgeted pushes of a build whose values are all "a"
PushWithin == PushCall({"a"})

\* Push by a thread that has used up its budget for the key: Push checks
\* nothing, so it writes at the cursor as always. A cursor below len(data)
\* overwrites that cell. A cursor at len(data) is a write past the end of the
\* vector, which is undefined: it lands in memory the builder does not read
\* (data_ is as before), or the process is stopped.
PushOver ==
  /\ pc = "fill"
  /\ \E threadid \in Threads, key \in Keys, value \in {"b"} :
       /\ key \in 0..(Len(thread_rptr_[threadid + 1]) - 1)
       /\ NPushed(threadid, key) = budget[threadid + 1][key + 1]
       /\ LET r == PushResult(data_, thread_rptr_, key, value, threadid)
          IN  /\ thread_rptr_' = r.trp
              /\ pushed' = [pushed EXCEPT ![threadid + 1][key + 1] =
                              Append(@, [value |-> value, at |-> r.at])]
              /\ IF r.at < Len(data_)
                   THEN data_' = r.data /\ pc' = "over"
                   ELSE data_' = data_ /\ pc' \in {"over", "crash"}
       /\ total' = [total EXCEPT ![key + 1][value] = @ + 1]
  /\ UNCHANGED <<rptr_, cycle, budget, width, entry>>

\* a fresh build
Next == InitBudget \/ AddBudget \/ InitStorage \/ Push

Spec == Init /\ [][Next]_vars

\* backing arrays the caller hands to the constructor: empty ones, or a
\* non-decreasing rptr with rptr.back() = len(data); the tables are empty or
\* hold what an earlier use left in them
Supplied ==
  { [rptr |-> <<>>,        data |-> <<>>,         trp |-> <<>>],
    [rptr |-> <<0>>,       data |-> <<>>,         trp |-> << <<>> >>],
    [rptr |-> <<1>>,       data |-> <<"a">>,      trp |-> << <<2, 1>> >>],
    [rptr |-> <<0, 1, 2>>, data |-> <<"a", "b">>, trp |-> << <<1, 2>> >>],
    [rptr |-> <<1, 1, 2>>, data |-> <<"b", "a">>, trp |-> << <<1>>, <<1, 2>>, <<>> >>] }

InitSupplied ==
  /\ \E s \in Supplied :
       /\ rptr_ = s.rptr
       /\ data_ = s.data
       /\ total = [k \in 1..(MaxKey + 1) |->
                     [v \in Values |->
                        IF k + 1 <= Len(s.rptr)
                          THEN Cardinality({j \in (s.rptr[k] + 1)..s.rptr[k + 1] :
                                              s.data[j] = v})
                          ELSE 0]]
       /\ thread_rptr_ = s.trp
  /\ pc = "idle"
  /\ cycle = 0
  /\ budget = <<>>
  /\ width = <<>>
  /\ pushed = <<>>
  /\ entry = [rptr |-> <<>>, data |-> <<>>]

\* one build on arrays the caller supplies
SpecSupplied == InitSupplied /\ [][Next]_vars

\* a fresh build of values "a" in which one Push, of the value "b", goes
\* beyond the budget
NextOver == InitBudget \/ AddBudget \/ InitStorage \/ PushWithin \/ PushOver

SpecOver == Init /\ [][NextOver]_vars

\* a fresh build followed by builds in append mode
NextAppend == InitBudgetAppend \/ AddBudget \/ InitStorage \/ Push

SpecAppend == Init /\ [][NextAppend]_vars

\* ----------------------------------------------------- what is observed
\* the build cycle has been run to its end
Done == pc = "fill" /\ AllPushed

\* the build cycle started on empty rptr_ and data_
Fresh == entry.rptr = <<>> /\ entry.data = <<>>

\* number of cells of the C++ slice data[lo:hi] that hold v
SegCount(data, lo, hi, v) == Cardinality({j \in (lo + 1)..hi : data[j] = v})

\* number of Push(k, v, t) calls of this cycle, over all threads t
PushCount(k, v) ==
  SumSeq([t \in 1..NThread |->
            Cardinality({j \in 1..Len(pushed[t][k + 1]) : pushed[t][k + 1][j].value = v})])

\* the Push calls of this cycle: thread, key, position in the thread's calls for the key
Calls ==
  UNION {{<<t, k, j>> : j \in 1..Len(pushed[t + 1][k + 1])} : t \in Threads, k \in Keys}
CallOf(c) == pushed[c[1] + 1][c[2] + 1][c[3]]

\* number of Push calls of this cycle that wrote the cell with C++ index i
Writes(i) == Cardinality({c \in Calls : CallOf(c).at = i})

\* C++ indices of the table of thread t
TableKeys(t) == 0..(Len(thread_rptr_[t + 1]) - 1)

\* ------------------------------------------------------------------ C1
\* C1: round trip of a fresh build: when every thread has pushed what it
\* budgeted, data[ptr[k]:ptr[k+1]] holds, for every key k below len(ptr)-1,
\* exactly the multiset of the values pushed with key k (and no unwritten
\* cell), and no value was pushed for a key outside ptr.
C1_RoundTrip ==
  (Done /\ Fresh) =>
    /\ Len(rptr_) >= 1
    /\ \A k \in Keys :
         IF k < Len(rptr_) - 1
           THEN /\ 0 <= rptr_[k + 1] /\ rptr_[k + 1] <= rptr_[k + 2]
                /\ rptr_[k + 2] <= Len(data_)
                /\ \A v \in Values \cup {NoValue} :
                     SegCount(data_, rptr_[k + 1], rptr_[k + 2], v) = PushCount(k, v)
           ELSE \A v \in Values : PushCount(k, v) = 0

\* two threads with tables of different width, three values, one key shared
C1_Witness ==
  /\ Done /\ Fresh
  /\ NThread = 2
  /\ Len(thread_rptr_[1]) = 1 /\ Len(thread_rptr_[2]) = 2
  /\ budget = << <<1, 0>>, <<1, 1>> >>
  /\ rptr_ = <<0, 2, 3>>
  /\ data_ = <<"a", "b", "a">>

\* ------------------------------------------------------------------ C2
\* C2: in phase 4 of a fresh build no cell of data is written by two Push
\* calls, every write is inside data, and when all threads have finished
\* every cell of data has been written exactly once.
C2_WriteOnce ==
  (pc = "fill" /\ Fresh) =>
    /\ \A c \in Calls : CallOf(c).at >= 0 /\ CallOf(c).at < Len(data_)
    /\ \A i \in 0..(Len(data_) - 1) : Writes(i) <= 1
    /\ AllPushed => \A i \in 0..(Len(data_) - 1) : Writes(i) = 1

\* two threads have each pushed twice, for the same key, and have finished
C2_Witness ==
  /\ Done /\ Fresh
  /\ NThread = 2
  /\ Len(pushed[1][1]) = 1 /\ Len(pushed[2][1]) = 2
  /\ Len(data_) = 3

\* ------------------------------------------------------------------ C3
NoPushYet == \A t \in Threads : \A k \in Keys : NPushed(t, k) = 0

InRange(t, k, i) ==
  /\ k \in TableKeys(t)
  /\ thread_rptr_[t + 1][k + 1] <= i
  /\ i < thread_rptr_[t + 1][k + 1] + budget[t + 1][k + 1]

\* C3: slot uniqueness right after InitStorage of a fresh build: the range
\* [cursor(t,k), cursor(t,k) + budget(t,k)) of every table entry lies in
\* [ptr[k], ptr[k+1]), and every cell of [ptr[k], ptr[k+1]) lies in the range
\* of exactly one thread; a thread without an entry for k has no budget for k.
C3_SlotUniqueness ==
  (pc = "fill" /\ Fresh /\ NoPushYet) =>
    /\ \A t \in Threads : \A k \in Keys :
         IF k \in TableKeys(t)
           THEN /\ k + 2 <= Len(rptr_)
                /\ rptr_[k + 1] <= thread_rptr_[t + 1][k + 1]
                /\ thread_rptr_[t + 1][k + 1] + budget[t + 1][k + 1] <= rptr_[k + 2]
           ELSE budget[t + 1][k + 1] = 0
    /\ \A k \in 0..(Len(rptr_) - 2) : \A i \in rptr_[k + 1]..(rptr_[k + 2] - 1) :
         Cardinality({t \in Threads : InRange(t, k, i)}) = 1
    /\ \A k \in 0..(Len(rptr_) - 2) :
         rptr_[k + 2] - rptr_[k + 1] = SumSeq([t \in 1..NThread |-> budget[t][k + 1]])

\* both threads have budget for key 1, thread 0 also for key 0
C3_Witness ==
  /\ pc = "fill" /\ Fresh /\ NoPushYet
  /\ NThread = 2
  /\ budget = << <<1, 1>>, <<0, 1>> >>
  /\ thread_rptr_ = << <<0, 1>>, <<1, 2>> >>

\* ------------------------------------------------------------------ C4
NonDecreasing(v) == \A j \in 1..(Len(v) - 1) : v[j] <= v[j + 1]

\* C4: segment coverage: from InitStorage on and through every Push, of a
\* fresh build or of a build in append mode, ptr is non-decreasing and
\* ptr.back() = len(data); in a fresh build ptr[0] = 0.
C4_SegmentCoverage ==
  pc = "fill" =>
    /\ Len(rptr_) >= 1
    /\ NonDecreasing(rptr_)
    /\ Back(rptr_) = Len(data_)
    /\ Fresh => rptr_[1] = 0

\* an append build on ptr = <<1>> that made ptr longer and has pushed into
\* the two new cells
C4_Witness ==
  /\ Done /\ ~Fresh
  /\ entry.rptr = <<1>>
  /\ rptr_ = <<1, 2, 3>>
  /\ Len(data_) = 3

\* ------------------------------------------------------------------ C5
\* C5: a finished fresh build equals the sequential two pass grouping (count
\* per key, prefix sum, fill) of the threads' records taken in increasing
\* thread id, whatever the interleaving was; in a key's segment the values of
\* thread t come before those of thread t' when t < t'.

\* the records thread t pushed, key by key; the grouping of a record sequence
\* depends only on the order of the records of one key
RECURSIVE ShardFrom(_, _)
ShardFrom(t, k) ==
  IF k > MaxKey THEN <<>>
  ELSE [j \in 1..Len(pushed[t + 1][k + 1]) |->
          [key |-> k, value |-> pushed[t + 1][k + 1][j].value]] \o ShardFrom(t, k + 1)

RECURSIVE ShardsFrom(_)
ShardsFrom(t) == IF t >= NThread THEN <<>> ELSE ShardFrom(t, 0) \o ShardsFrom(t + 1)

\* pass 1 and prefix sum: ptr of nkeys + 1 offsets
SeqPtr(recs, nkeys) ==
  [i \in 1..(nkeys + 1) |-> Cardinality({j \in 1..Len(recs) : recs[j].key < i - 1})]

\* pass 2: every record goes to the next free cell of its key
RECURSIVE SeqFill(_, _, _)
SeqFill(recs, cur, data) ==
  IF recs = <<>> THEN data
  ELSE LET r == Head(recs)
       IN  SeqFill(Tail(recs),
                   [cur EXCEPT ![r.key + 1] = @ + 1],
                   [data EXCEPT ![cur[r.key + 1] + 1] = r.value])

SeqGroup(recs, nkeys) ==
  LET ptr == SeqPtr(recs, nkeys)
  IN  [ptr |-> ptr, data |-> SeqFill(recs, ptr, [j \in 1..Len(recs) |-> NoValue])]

\* the widest table, as max(nkeys, 1 + largest key budgeted) over the threads
MaxWidth == CHOOSE w \in {width[t] : t \in 1..NThread} : \A t \in 1..NThread : width[t] <= w

\* C5: the finished fresh build is the sequential grouping, thread by thread
C5_Sequential ==
  (Done /\ Fresh) =>
    /\ LET g == SeqGroup(ShardsFrom(0), MaxWidth)
       IN  rptr_ = g.ptr /\ data_ = g.data
    /\ \A c \in Calls, d \in Calls :
         (c[2] = d[2] /\ c[1] < d[1]) => CallOf(c).at < CallOf(d).at

\* thread 0 pushed for keys 1 and 0, thread 1 for key 1
C5_Witness ==
  /\ Done /\ Fresh
  /\ NThread = 2
  /\ budget = << <<1, 1>>, <<0, 1>> >>
  /\ rptr_ = <<0, 1, 3>>
  /\ data_ = <<"b", "a", "b">>
  /\ pushed[1][2][1].value = "a" /\ pushed[2][2][1].value = "b"

\* ------------------------------------------------------------------ C6
\* C6: the Push calls of one thread for one key write at strictly increasing
\* indices, and at the end of the build each value is at the index it was
\* written to.
C6_IntraThreadOrder ==
  (pc = "fill" /\ Fresh) =>
    /\ \A c \in Calls, d \in Calls :
         (c[1] = d[1] /\ c[2] = d[2] /\ c[3] < d[3]) => CallOf(c).at < CallOf(d).at
    /\ AllPushed => \A c \in Calls :
         /\ CallOf(c).at + 1 \in 1..Len(data_)
         /\ data_[CallOf(c).at + 1] = CallOf(c).value

\* thread 1 pushed "a" then "b" for key 1, both threads pushed for other
\* keys or threads as well
C6_Witness ==
  /\ Done /\ Fresh
  /\ NThread = 2
  /\ Len(pushed[2][2]) = 2
  /\ pushed[2][2][1].value = "a" /\ pushed[2][2][2].value = "b"
  /\ Len(pushed[1][2]) = 1

\* ------------------------------------------------------------------ C7
\* the build cycle started on the rptr_ a build had left
AppendMode == entry.rptr # <<>>

\* C7: after a build cycle, also one in append mode that budgets a key which
\* already has values, data[ptr[k]:ptr[k+1]] holds for every key k exactly the
\* values pushed for k in this and in the earlier cycles.
C7_AppendKeepsGroups ==
  Done => \A k \in 0..(Len(rptr_) - 2) : \A v \in Values :
            SegCount(data_, rptr_[k + 1], rptr_[k + 2], v) = total[k + 1][v]

\* ------------------------------------------------------------------ C8
\* C8 as stated: in append mode ptr[0] after InitStorage is the tail value
\* ptr had when the cycle started.
C8_PtrZeroIsPriorTail ==
  (pc = "fill" /\ AppendMode) => rptr_[1] = Back(entry.rptr)

\* C8 as amended: in append mode InitStorage leaves ptr[0] as it was when the
\* cycle started, which is 0 when the first build on the arrays was a fresh one.
C8_PtrZeroKept ==
  (pc = "fill" /\ AppendMode) => (rptr_[1] = entry.rptr[1] /\ rptr_[1] = 0)

\* an append build on two values that budgets key 0
C8_Witness ==
  /\ pc = "fill" /\ AppendMode
  /\ Back(entry.rptr) = 2
  /\ budget[1][1] = 1

\* ------------------------------------------------------------------ C9
\* C9: a build in append mode only grows data: after InitStorage len(data) is
\* the earlier length plus the budgets of this cycle, the earlier cells keep
\* their values, every cursor and every write is at or after the earlier
\* length, and at the end every new cell holds the value of the one Push that
\* wrote it.
C9_AppendOnlyGrows ==
  (pc = "fill" /\ AppendMode) =>
    /\ Len(data_) = Len(entry.data) + TotalBudget
    /\ \A j \in 1..Len(entry.data) : data_[j] = entry.data[j]
    /\ \A t \in Threads : \A k \in TableKeys(t) :
         thread_rptr_[t + 1][k + 1] >= Len(entry.data)
    /\ \A c \in Calls : CallOf(c).at >= Len(entry.data)
    /\ AllPushed =>
         /\ \A i \in Len(entry.data)..(Len(data_) - 1) : Writes(i) = 1
         /\ \A c \in Calls : data_[CallOf(c).at + 1] = CallOf(c).value

\* an append build that has pushed for a key the earlier build had values for
C9_Witness ==
  /\ Done /\ AppendMode
  /\ Len(entry.rptr) = 3 /\ entry.rptr[2] > 0
  /\ Len(entry.data) = 2
  /\ Len(pushed[1][1]) = 1

\* ----------------------------------------------------------------- C10
\* C10: in phase 2, after any AddBudget calls, the table of thread t is
\* max(nkeys, 1 + largest key t budgeted) wide and its counter for every key
\* below that is the sum of the nelem budgeted for the key; a key at or
\* beyond the width was never budgeted.
C10_BudgetAccumulates ==
  pc = "budget" =>
    \A t \in Threads :
      /\ Len(thread_rptr_[t + 1]) = width[t + 1]
      /\ \A k \in Keys :
           IF k < width[t + 1]
             THEN thread_rptr_[t + 1][k + 1] = budget[t + 1][k + 1]
             ELSE budget[t + 1][k + 1] = 0

\* thread 0 grew its table from 0 to 2 keys and budgeted key 0 twice
C10_Witness ==
  /\ pc = "budget"
  /\ NThread = 2
  /\ thread_rptr_ = << <<2, 1>>, <<>> >>

\* ----------------------------------------------------------------- C11
\* a step of phase 2 that leaves every sum of nelem as it was: AddBudget with
\* nelem = 0
ZeroBudgetStep == pc = "budget" /\ pc' = "budget" /\ budget' = budget

\* C11 as stated: AddBudget(key, threadid, 0) leaves the tables as they were,
\* also for a key at or beyond the width of the thread's table, and so the
\* ptr and data the following InitStorage makes.
C11_ZeroBudgetNoOp ==
  [][ZeroBudgetStep =>
       /\ thread_rptr_' = thread_rptr_
       /\ InitStorageResult(rptr_, data_, thread_rptr_').rptr =
            InitStorageResult(rptr_, data_, thread_rptr_).rptr]_vars

\* C11 as amended: AddBudget(key, threadid, 0) changes no counter; for a key
\* below the width of the thread's table it changes nothing, for a key at or
\* beyond it the table grows by zero counters, and the following InitStorage
\* makes the same data and the same ptr followed by zero or more copies of
\* its tail value.
C11_ZeroBudgetKeepsCounters ==
  [][ZeroBudgetStep =>
       /\ rptr_' = rptr_ /\ data_' = data_
       /\ Len(thread_rptr_') = Len(thread_rptr_)
       /\ \A t \in 1..Len(thread_rptr_) :
            /\ Len(thread_rptr_'[t]) >= Len(thread_rptr_[t])
            /\ \A k \in 1..Len(thread_rptr_'[t]) :
                 thread_rptr_'[t][k] =
                   IF k <= Len(thread_rptr_[t]) THEN thread_rptr_[t][k] ELSE 0
       /\ width' = width => thread_rptr_' = thread_rptr_
       /\ LET a == InitStorageResult(rptr_, data_, thread_rptr_)
              b == InitStorageResult(rptr_, data_, thread_rptr_')
          IN  /\ b.data = a.data
              /\ Len(b.rptr) >= Len(a.rptr)
              /\ \A j \in 1..Len(b.rptr) :
                   b.rptr[j] = IF j <= Len(a.rptr) THEN a.rptr[j] ELSE Back(a.rptr)]_vars

\* thread 0 has budgeted key 0 and then key 1 with nelem = 0, beyond the hint
C11_Witness ==
  /\ pc = "budget"
  /\ NThread = 2
  /\ thread_rptr_ = << <<1, 0>>, <<>> >>
  /\ budget = << <<1, 0>>, <<0, 0>> >>

\* ----------------------------------------------------------------- C12
\* C12: when no thread pushes more for a key than it budgeted, every Push, in
\* a fresh build and in a build appended to supplied arrays, writes at an
\* index c with 0 <= c < len(data): the writes made so far did, and the next
\* write of every pair with budget left will.
C12_WritesInBounds ==
  pc = "fill" =>
    /\ \A t \in Threads : \A k \in Keys : \A j \in 1..NPushed(t, k) :
         /\ 0 <= pushed[t + 1][k + 1][j].at
         /\ pushed[t + 1][k + 1][j].at < Len(data_)
    /\ \A t \in Threads : \A k \in Keys :
         NPushed(t, k) < budget[t + 1][k + 1] =>
           /\ 0 <= thread_rptr_[t + 1][k + 1]
           /\ thread_rptr_[t + 1][k + 1] < Len(data_)

\* two threads have appended to supplied arrays and the last cell is written
C12_Witness ==
  /\ Done
  /\ NThread = 2
  /\ entry.data = <<"a">>
  /\ Len(data_) = 3
  /\ NPushed(0, 0) = 1
  /\ \E c \in Calls : c[1] = 1 /\ CallOf(c).at = Len(data_) - 1

\* ----------------------------------------------------------------- C13
\* a step that enters phase 2: InitBudget
InitBudgetStep == pc # "budget" /\ pc' = "budget"

\* C13: after InitBudget(nkeys, nthread) there are exactly nthread tables and
\* each is exactly nkeys zeros, whatever the tables held before the call (the
\* cursors of the previous build, wider or narrower tables, another number of
\* tables).
C13_InitBudgetResets ==
  [][InitBudgetStep =>
       /\ Len(thread_rptr_') = Len(budget')
       /\ \A t \in 1..Len(thread_rptr_') :
            thread_rptr_'[t] = [k \in 1..width'[t] |-> 0]
       /\ \A t \in 1..Len(width') : width'[t] = width'[1]]_vars

\* InitBudget(1, 2) on the three supplied tables <<1>>, <<1, 2>> and <<>>
C13_Witness ==
  /\ pc = "budget"
  /\ entry.rptr = <<1, 1, 2>>
  /\ thread_rptr_ = << <<0>>, <<0>> >>
  /\ width = <<1, 1>>

\* ----------------------------------------------------------------- C14
\* sum over the threads of the budgets of key k
KeyBudget(k) == SumSeq([t \in 1..NThread |-> budget[t][k + 1]])

\* C14: in a fresh build ptr covers the keys below the final width W, and
\* every such key whose budgets sum to 0 (a key below the hint nobody
\* budgeted, a key below a larger budgeted key, a key budgeted with nelem = 0
\* only) has ptr[k] = ptr[k+1].
C14_EmptySegments ==
  (pc = "fill" /\ Fresh) =>
    /\ Len(rptr_) = MaxWidth + 1
    /\ \A k \in 0..(MaxWidth - 1) :
         KeyBudget(k) = 0 => rptr_[k + 1] = rptr_[k + 2]

\* key 0 is below the budgeted key 1 and nobody budgeted it
C14_Witness ==
  /\ pc = "fill"
  /\ Fresh
  /\ NThread = 2
  /\ KeyBudget(0) = 0
  /\ rptr_ = <<0, 0, 2>>

\* ----------------------------------------------------------------- C15
\* AddBudget(k, t, n) and AddBudget(j, u, m) give the same tables in either order
Commute(trp, k, t, n, j, u, m) ==
  AddBudgetResult(AddBudgetResult(trp, k, t, n), j, u, m) =
    AddBudgetResult(AddBudgetResult(trp, j, u, m), k, t, n)

\* C15: in phase 2, AddBudget(key, t, nelem) changes the table of thread t
\* alone: the number of tables and every other thread's table stay as they
\* are, ptr and data are those InitBudget found, and calls of two different
\* threads give the same tables in either order.
C15_ThreadIsolation ==
  pc = "budget" =>
    /\ rptr_ = entry.rptr /\ data_ = entry.data
    /\ \A t \in Threads, k \in Keys, n \in {0, 1} :
         LET r == AddBudgetResult(thread_rptr_, k, t, n)
         IN  /\ Len(r) = NThread
             /\ r[t + 1] = AddBudgetTable(thread_rptr_[t + 1], k, n)
             /\ \A u \in Threads \ {t} :
                  /\ r[u + 1] = thread_rptr_[u + 1]
                  /\ u > t =>
                       \A j \in Keys, m \in {0, 1} :
                         Commute(thread_rptr_, k, t, n, j, u, m)

\* both threads have budgeted, with tables of different widths
C15_Witness ==
  /\ pc = "budget"
  /\ NThread = 2
  /\ thread_rptr_ = << <<1>>, <<0, 1>> >>

\* ----------------------------------------------------------------- C16
\* B: the tail of ptr when the build began, 0 for an empty ptr
Base == IF entry.rptr = <<>> THEN 0 ELSE Back(entry.rptr)

\* C: the budgets of the pairs that come before (t, k) in key-major,
\* thread-minor order
Preceding(t, k) ==
  SumSeq([u \in 1..NThread |->
            SumSeq([j \in 1..(MaxKey + 1) |->
                      IF j - 1 < k \/ (j - 1 = k /\ u - 1 < t)
                        THEN budget[u][j] ELSE 0])])

\* C16: the cursor InitStorage stores for thread t and key i is B + C, for
\* every key of every table, the last key included, in a fresh build and in
\* a build appended to supplied arrays.
C16_CursorFormula ==
  (pc = "fill" /\ NoPushYet) =>
    \A t \in Threads : \A k \in TableKeys(t) :
      thread_rptr_[t + 1][k + 1] = Base + Preceding(t, k)

\* append to <<0, 1, 2>>: thread 1 budgets one value for the last key
C16_Witness ==
  /\ pc = "fill"
  /\ NoPushYet
  /\ entry.rptr = <<0, 1, 2>>
  /\ budget = << <<0, 0>>, <<0, 1>> >>
  /\ thread_rptr_ = << <<2, 2>>, <<2, 2>> >>
  /\ rptr_ = <<0, 1, 3>>

\* ----------------------------------------------------------------- C17
\* the budgets of the keys below k
BudgetBelow(k) == SumSeq([j \in 1..k |-> KeyBudget(j - 1)])

WidthPlusOne == MaxWidth + 1

\* C17: after InitStorage len(ptr) is the larger of len(ptr) on entry and
\* W + 1, W the largest table width; ptr is never shortened, a fresh build
\* has len(ptr) = W + 1, and an entry InitStorage added began as the tail
\* value on entry: it holds that value plus the budgets of the keys below it.
C17_PtrLength ==
  pc = "fill" =>
    /\ Len(rptr_) = IF Len(entry.rptr) > WidthPlusOne THEN Len(entry.rptr)
                                                      ELSE WidthPlusOne
    /\ Len(rptr_) >= Len(entry.rptr)
    /\ Fresh => Len(rptr_) = WidthPlusOne
    /\ NoPushYet =>
         \A j \in (Len(entry.rptr) + 1)..Len(rptr_) :
           rptr_[j] = Base + BudgetBelow(j - 1)

\* ptr <<1>> is supplied and the tables have width 2: two entries are added,
\* and the first keeps the tail value 1 because key 0 has no budget
C17_Witness ==
  /\ pc = "fill"
  /\ entry.rptr = <<1>>
  /\ NThread = 2
  /\ width = <<0, 2>>
  /\ rptr_ = <<1, 1, 2>>

\* ----------------------------------------------------------------- C18
\* the pairs of which more values were pushed than budgeted
OverPairs ==
  {p \in Threads \X Keys : NPushed(p[1], p[2]) > budget[p[1] + 1][p[2] + 1]}

\* the table entries that come after (t, k) in key-major, thread-minor order
Later(t, k) ==
  {q \in Threads \X Keys :
     /\ q[2] \in TableKeys(q[1])
     /\ q[2] > k \/ (q[2] = k /\ q[1] > t)}

\* the first of a non-empty set of pairs in key-major, thread-minor order
First(ps) ==
  CHOOSE q \in ps : \A r \in ps : q[2] < r[2] \/ (q[2] = r[2] /\ q[1] <= r[1])

\* where the sub-range of pair q begins
Start(q) == Base + Preceding(q[1], q[2])

\* C18: when a thread pushes one value more than it budgeted for key k, the
\* extra value is written where the sub-range of the next table entry in
\* key-major, thread-minor order begins, or at len(data) when (t, k) is the
\* last entry; an index below len(data) is a cell of another pair, which now
\* holds the extra value, and ptr and len(data) are as InitStorage left them.
C18_OverPushLandsOnNext ==
  pc \in {"over", "crash"} =>
    /\ Cardinality(OverPairs) = 1
    /\ \A p \in OverPairs :
         LET call  == Back(pushed[p[1] + 1][p[2] + 1])
             later == Later(p[1], p[2])
         IN  /\ NPushed(p[1], p[2]) = budget[p[1] + 1][p[2] + 1] + 1
             /\ call.at = IF later = {} THEN Len(data_) ELSE Start(First(later))
             /\ call.at < Len(data_) =>
                  /\ \E q \in later :
                       Start(q) <= call.at /\ call.at < Start(q) + budget[q[1] + 1][q[2] + 1]
                  /\ data_[call.at + 1] = call.value
             /\ call.at >= Len(data_) => call.at = Len(data_)
             /\ Len(rptr_) = WidthPlusOne
             /\ Back(rptr_) = Len(data_)

\* thread 0 pushes a second value for key 0 and overwrites the cell of thread 1
C18_Witness ==
  /\ pc = "over"
  /\ NThread = 2
  /\ budget[1][1] = 1 /\ budget[2][1] = 1
  /\ NPushed(0, 0) = 2
  /\ NPushed(1, 0) = 1
  /\ pushed[1][1][2] = [value |-> "b", at |-> 1]
  /\ data_[2] = "b"

\* ----------------------------------------------------------------- C19
\* K: the number of keys ptr covered when the build began
PriorKeys == Len(entry.rptr) - 1

\* an appended build that budgets keys at or above K only
NewKeysOnly ==
  /\ AppendMode
  /\ \A t \in Threads : \A k \in Keys :
       k < PriorKeys => budget[t + 1][k + 1] = 0

\* C19: in an appended build that budgets and pushes only keys k >= K,
\* K = len(ptr) - 1 on entry, InitStorage leaves ptr[0..K] and the prior data
\* as they were, and when every budgeted value is pushed each prior key's
\* segment holds its prior values and each key k >= K holds exactly the values
\* pushed for it in this build.
C19_AppendNewKeys ==
  (pc = "fill" /\ NewKeysOnly) =>
    /\ Len(rptr_) >= Len(entry.rptr)
    /\ \A j \in 1..Len(entry.rptr) : rptr_[j] = entry.rptr[j]
    /\ Done =>
         /\ Len(data_) >= Len(entry.data)
         /\ \A j \in 1..Len(entry.data) : data_[j] = entry.data[j]
         /\ \A k \in 0..(Len(rptr_) - 2) : \A v \in Values :
              /\ rptr_[k + 1] <= rptr_[k + 2] /\ rptr_[k + 2] <= Len(data_)
              /\ SegCount(data_, rptr_[k + 1], rptr_[k + 2], v) =
                   IF k < PriorKeys
                     THEN SegCount(entry.data, entry.rptr[k + 1], entry.rptr[k + 2], v)
                     ELSE PushCount(k, v)

\* key 0 holds two values of the first build; the second build adds key 1
C19_Witness ==
  /\ Done
  /\ cycle = 2
  /\ entry.rptr = <<0, 2>>
  /\ entry.data = <<"a", "b">>
  /\ rptr_ = <<0, 2, 3>>
  /\ data_ = <<"a", "b", "a">>
  /\ NPushed(0, 1) = 1

====
